---- MODULE Spec2Model ----
(***************************************************************************)
(* Greenspot Grocer ETL (src/python/greenspot_etl.py): the flat CSV export  *)
(* is parsed row by row into in-memory containers, which are then loaded    *)
(* into the relational sink phase by phase.                                 *)
(*                                                                          *)
(* A CSV cell is a sequence of one-character strings; the empty sequence is *)
(* a blank cell, which pandas reads as NaN.  An optional value (Python's    *)
(* None or a value) is the empty sequence or a one-element sequence.        *)
(***************************************************************************)
EXTENDS Integers, Sequences, FiniteSets, TLC

\* ------------------------------------------------------------------ bounds
MaxRows == 2
MaxRuns == 2
MaxFaults == 1

\* ------------------------------------------------------- text primitives
NA == << >>
None == << >>
Some(x) == <<x>>

isna(cell) == cell = NA
notna(cell) == cell # NA

Whitespace == {" ", "\t"}
Digits == <<"0", "1", "2", "3", "4", "5", "6", "7", "8", "9">>
DigitSet == {Digits[i] : i \in DOMAIN Digits}
UpperAlpha == <<"A", "B", "C", "D", "E", "F", "G", "H", "I", "J", "K", "L", "M",
                "N", "O", "P", "Q", "R", "S", "T", "U", "V", "W", "X", "Y", "Z">>
LowerAlpha == <<"a", "b", "c", "d", "e", "f", "g", "h", "i", "j", "k", "l", "m",
                "n", "o", "p", "q", "r", "s", "t", "u", "v", "w", "x", "y", "z">>

RECURSIVE LStrip(_)
LStrip(s) == IF s # << >> /\ Head(s) \in Whitespace THEN LStrip(Tail(s)) ELSE s

RECURSIVE RStrip(_)
RStrip(s) ==
    IF s # << >> /\ s[Len(s)] \in Whitespace
    THEN RStrip(SubSeq(s, 1, Len(s) - 1))
    ELSE s

\* str.strip()
Strip(s) == RStrip(LStrip(s))

LowerChar(c) ==
    IF \E i \in DOMAIN UpperAlpha : UpperAlpha[i] = c
    THEN LowerAlpha[CHOOSE i \in DOMAIN UpperAlpha : UpperAlpha[i] = c]
    ELSE c

UpperChar(c) ==
    IF \E i \in DOMAIN LowerAlpha : LowerAlpha[i] = c
    THEN UpperAlpha[CHOOSE i \in DOMAIN LowerAlpha : LowerAlpha[i] = c]
    ELSE c

\* str.lower(), str.upper()
Lower(s) == [i \in DOMAIN s |-> LowerChar(s[i])]
Upper(s) == [i \in DOMAIN s |-> UpperChar(s[i])]

StartsWith(s, p) == Len(s) >= Len(p) /\ SubSeq(s, 1, Len(p)) = p

\* str.split(sep): the segments between the occurrences of sep, left to right
RECURSIVE SplitFrom(_, _, _)
SplitFrom(s, sep, cur) ==
    IF s = << >> THEN <<cur>>
    ELSE IF StartsWith(s, sep)
         THEN <<cur>> \o SplitFrom(SubSeq(s, Len(sep) + 1, Len(s)), sep, << >>)
         ELSE SplitFrom(Tail(s), sep, Append(cur, Head(s)))

Split(s, sep) == SplitFrom(s, sep, << >>)

AllDigits(s) == s # << >> /\ \A i \in DOMAIN s : s[i] \in DigitSet

DigitValue(c) == (CHOOSE i \in DOMAIN Digits : Digits[i] = c) - 1

RECURSIVE DigitsValue(_)
DigitsValue(s) ==
    IF s = << >> THEN 0
    ELSE DigitsValue(SubSeq(s, 1, Len(s) - 1)) * Len(Digits) + DigitValue(s[Len(s)])

\* int(cell) / float(cell) accept the cell exactly when, stripped, it is a numeral;
\* anything else raises ValueError
CanInt(cell) == AllDigits(Strip(cell))
IntOf(cell) == DigitsValue(Strip(cell))

\* the numeral of n, zero-padded to at least w characters (strftime's %m, %d, %Y)
RECURSIVE Numeral(_, _)
Numeral(n, w) ==
    IF n < Len(Digits) /\ w <= 1 THEN <<Digits[n + 1]>>
    ELSE Numeral(n \div Len(Digits), w - 1) \o <<Digits[(n % Len(Digits)) + 1]>>

\* ------------------------------------------------------- field normaliser
\* clean_vendor_data: the regular expression ([^,]+),?\s+([A-Z]{2})\s+(\d{5})
\* applied by re.match to the stripped third segment.  rest is what follows
\* group 1; the result is << >> (no match) or <<[state, zip]>>.
UpperSet == {UpperAlpha[i] : i \in DOMAIN UpperAlpha}

ReTail(rest) ==
    LET r1 == IF rest # << >> /\ Head(rest) = "," THEN Tail(rest) ELSE rest
        r2 == LStrip(r1)
        r3 == SubSeq(r2, 3, Len(r2))
        r4 == LStrip(r3)
    IN  IF /\ r1 # << >> /\ Head(r1) \in Whitespace
           /\ Len(r2) >= 2 /\ r2[1] \in UpperSet /\ r2[2] \in UpperSet
           /\ r3 # << >> /\ Head(r3) \in Whitespace
           /\ Len(r4) >= 5 /\ \A i \in 1..5 : r4[i] \in DigitSet
        THEN <<[state |-> SubSeq(r2, 1, 2), zip |-> SubSeq(r4, 1, 5)]>>
        ELSE << >>

\* the lengths group 1 may take: a non-empty comma-free prefix followed by a match
ReGroup1Ends(location) ==
    {i \in 1..Len(location) :
        /\ \A j \in 1..i : location[j] # ","
        /\ ReTail(SubSeq(location, i + 1, Len(location))) # << >>}

\* re.match is greedy: group 1 is the longest such prefix
ReMatch(location) ==
    IF ReGroup1Ends(location) = {} THEN << >>
    ELSE LET i == CHOOSE k \in ReGroup1Ends(location) :
                      \A m \in ReGroup1Ends(location) : m <= k
             t == ReTail(SubSeq(location, i + 1, Len(location)))[1]
         IN  <<[city |-> Strip(SubSeq(location, 1, i)),
                state |-> Strip(t.state), zip |-> Strip(t.zip)]>>

CommaSpace == <<",", " ">>

\* clean_vendor_data that takes an unmatched third segment as the city
VendorDataCityFallback(parts, m) ==
    [vendor_name |-> Strip(parts[1]),
     address |-> IF Len(parts) > 1 THEN Strip(parts[2]) ELSE << >>,
     city |-> IF m # << >> THEN m[1].city
              ELSE IF Len(parts) > 2 THEN Strip(parts[3]) ELSE << >>,
     state |-> IF m # << >> THEN m[1].state ELSE << >>,
     zip_code |-> IF m # << >> THEN m[1].zip ELSE << >>]

\* clean_vendor_data: the dictionary built from the segments and from the match
\* of the third one
VendorData(parts, m) ==
    [vendor_name |-> Strip(parts[1]),
     address |-> IF Len(parts) > 1 THEN Strip(parts[2]) ELSE << >>,
     city |-> IF m # << >> THEN m[1].city ELSE << >>,
     state |-> IF m # << >> THEN m[1].state ELSE << >>,
     zip_code |-> IF m # << >> THEN m[1].zip ELSE << >>]

LocationMatch(parts) == IF Len(parts) > 2 THEN ReMatch(Strip(parts[3])) ELSE << >>

VendorOfParts(parts) == VendorData(parts, LocationMatch(parts))

\* clean_vendor_data(vendor_string): None, or Some(vendor_data)
clean_vendor_data(vendor_string) ==
    IF isna(vendor_string) \/ Strip(vendor_string) = << >> THEN None
    ELSE Some(VendorOfParts(Split(vendor_string, CommaSpace)))

Txt_each == <<"e", "a", "c", "h">>
Txt_GENERAL == <<"G", "E", "N", "E", "R", "A", "L">>
Txt_General == <<"G", "e", "n", "e", "r", "a", "l">>
Txt_12_ounce_can == <<"1", "2", " ", "o", "u", "n", "c", "e", " ", "c", "a", "n">>
Txt_12_dash_oz_can == <<"1", "2", "-", "o", "z", " ", "c", "a", "n">>
Txt_12_oz_can == <<"1", "2", " ", "o", "z", " ", "c", "a", "n">>
Txt_Product == <<"P", "r", "o", "d", "u", "c", "t", " ">>

\* normalize_unit(unit): the other three entries of unit_mappings map a key to itself
normalize_unit(unit) ==
    IF isna(unit) THEN Txt_each
    ELSE LET u == Strip(Lower(unit))
         IN  IF u \in {Txt_12_ounce_can, Txt_12_dash_oz_can} THEN Txt_12_oz_can ELSE u

\* normalize_location(location)
normalize_location(location) ==
    IF isna(location) THEN Txt_GENERAL ELSE Strip(Upper(location))

\* parse_date(date_str): datetime.strptime(str.strip(), '%m/%d/%Y') then
\* strftime('%Y-%m-%d'); None for a blank cell or a ValueError
Slash == <<"/">>
MonthDays == <<31, 28, 31, 30, 31, 30, 31, 31, 30, 31, 30, 31>>
IsLeap(y) == y % 4 = 0 /\ (y % 100 # 0 \/ y % 400 = 0)
DaysIn(m, y) == IF m = 2 /\ IsLeap(y) THEN MonthDays[m] + 1 ELSE MonthDays[m]

StrpTimeOk(s) ==
    LET p == Split(s, Slash)
    IN  /\ Len(p) = 3
        /\ AllDigits(p[1]) /\ Len(p[1]) <= 2
        /\ AllDigits(p[2]) /\ Len(p[2]) <= 2
        /\ AllDigits(p[3]) /\ Len(p[3]) = 4
        /\ DigitsValue(p[1]) \in DOMAIN MonthDays
        /\ DigitsValue(p[3]) >= 1
        /\ DigitsValue(p[2]) \in 1..DaysIn(DigitsValue(p[1]), DigitsValue(p[3]))

\* parse_date that keeps the text of a date strptime does not accept
parse_date_unchecked(date_str) ==
    IF isna(date_str) THEN None ELSE Some(Strip(date_str))

parse_date(date_str) ==
    IF isna(date_str) THEN None
    ELSE IF StrpTimeOk(Strip(date_str))
         THEN LET p == Split(Strip(date_str), Slash)
              IN  Some(Numeral(DigitsValue(p[3]), 4) \o <<"-">>
                       \o Numeral(DigitsValue(p[1]), 2) \o <<"-">>
                       \o Numeral(DigitsValue(p[2]), 2))
         ELSE None

\* ------------------------------------------------------------ the input
\* The columns process_row reads, and the cells the rows are built of.
Columns == {"Item num", "item type", "description", "Unit", "Location", "vendor",
            "cost", "Quantity", "purchase date", "quantity on-hand", "price",
            "cust", "date sold"}

Txt_Dairy == <<"D", "a", "i", "r", "y">>
Txt_Produce == <<"P", "r", "o", "d", "u", "c", "e">>
Txt_Eggs == <<"E", "g", "g", "s">>
Txt_Milk == <<"M", "i", "l", "k">>
Txt_Dozen == <<"D", "o", "z", "e", "n">>
Txt_d12 == <<"d", "1", "2">>
Txt_Bennet == <<"B", "e", "n", "n", "e", "t", " ", "F", "a", "r", "m", "s", ",", " ", "R", "t", ".", " ", "1", "7", ",", " ", "E", "v", "a", "n", "s", "v", "i", "l", "l", "e", ",", " ", "I", "L", " ", "5", "5", "4", "4", "6">>
Txt_Bennet_moved == <<"B", "e", "n", "n", "e", "t", " ", "F", "a", "r", "m", "s", ",", " ", "R", "t", ".", " ", "1", "8">>
Txt_Acme == <<"A", "c", "m", "e">>
Txt_blank == <<" ", " ">>
Txt_not_a_number == <<"a", "b", "c">>
Txt_purchase_day == <<"2", "/", "1", "/", "2", "0", "2", "2">>
Txt_sale_day == <<"1", "1", "/", "1", "8", "/", "2", "0", "2", "5">>
Txt_no_such_day == <<"1", "3", "/", "4", "0", "/", "2", "0", "2", "5">>

\* a row that defines product 1 and carries a purchase and a sale
BaseRow ==
    [c \in Columns |->
        CASE c = "Item num" -> <<"1">>
          [] c = "item type" -> Txt_Dairy
          [] c = "description" -> Txt_Eggs
          [] c = "Unit" -> Txt_Dozen
          [] c = "Location" -> Txt_d12
          [] c = "vendor" -> Txt_Bennet
          [] c = "cost" -> <<"3">>
          [] c = "Quantity" -> <<"5">>
          [] c = "purchase date" -> Txt_purchase_day
          [] c = "quantity on-hand" -> <<"4", "0">>
          [] c = "price" -> <<"4">>
          [] c = "cust" -> <<"7">>
          [] c = "date sold" -> Txt_sale_day]

\* the other cells a column may hold
OtherCells ==
    [c \in Columns |->
        CASE c = "Item num" -> {NA, <<"2">>, Txt_not_a_number}
          [] c = "item type" -> {NA, Txt_Produce}
          [] c = "description" -> {NA, Txt_Milk}
          [] c = "Unit" -> {NA, Txt_blank, Txt_12_dash_oz_can}
          [] c = "Location" -> {NA}
          [] c = "vendor" -> {NA, Txt_blank, Txt_Acme, Txt_Bennet_moved}
          [] c = "cost" -> {NA, Txt_not_a_number}
          [] c = "Quantity" -> {NA, Txt_not_a_number}
          [] c = "purchase date" -> {NA, Txt_no_such_day}
          [] c = "quantity on-hand" -> {NA, <<"2", "5">>, Txt_not_a_number}
          [] c = "price" -> {NA, Txt_not_a_number}
          [] c = "cust" -> {NA, <<"8">>}
          [] c = "date sold" -> {NA, Txt_no_such_day}]

\* the rows of the model: BaseRow and every row that differs from it in one cell
Rows == {BaseRow} \cup UNION {{[BaseRow EXCEPT ![c] = v] : v \in OtherCells[c]} : c \in Columns}

\* the files of the model: one to MaxRows rows
Inputs == UNION {[1..n -> Rows] : n \in 1..MaxRows}

\* ---------------------------------------------------- in-memory containers
\* A Python dict is the sequence of its entries [key, value] in insertion order.
HasKey(d, k) == \E i \in DOMAIN d : d[i].key = k
Get(d, k) == d[CHOOSE i \in DOMAIN d : d[i].key = k].value
Keys(d) == {d[i].key : i \in DOMAIN d}

\* GreenspotETL.__init__: the containers of a fresh instance
EmptyContainers ==
    [vendors |-> << >>, products |-> << >>, customers |-> {}, categories |-> << >>,
     purchases |-> << >>, sales |-> << >>, inventory |-> << >>]

\* int(x) if pd.notna(x) else 0 raises exactly when x is present and no numeral
IntOrZeroRaises(cell) == notna(cell) /\ ~CanInt(cell)
IntOrZero(cell) == IF notna(cell) THEN IntOf(cell) ELSE 0

\* process_row, "category_name = ..."
CategoryName(row) ==
    IF notna(row["item type"]) THEN Strip(row["item type"]) ELSE Txt_General

\* process_row with category ids that start at 0
CategoryStepFromZero(category_map, category_name) ==
    IF HasKey(category_map, category_name) THEN category_map
    ELSE Append(category_map, [key |-> category_name, value |-> Len(category_map)])

\* process_row, "Track categories"
CategoryStep(category_map, category_name) ==
    IF HasKey(category_map, category_name) THEN category_map
    ELSE Append(category_map, [key |-> category_name, value |-> Len(category_map) + 1])

\* process_row, the product dictionary
ProductRecord(row, item_num) ==
    [product_id |-> item_num,
     product_name |-> IF notna(row["description"]) THEN Strip(row["description"])
                      ELSE Txt_Product \o Numeral(item_num, 1),
     category |-> CategoryName(row),
     unit_of_measure |-> normalize_unit(row["Unit"]),
     location_code |-> normalize_location(row["Location"])]

\* process_row that writes the product of every row: the last row wins
ProductStepLastRow(c, row, item_num) ==
    [c EXCEPT
        !.products =
            IF HasKey(c.products, item_num)
            THEN [i \in DOMAIN @ |->
                     IF @[i].key = item_num
                     THEN [key |-> item_num, value |-> ProductRecord(row, item_num)]
                     ELSE @[i]]
            ELSE Append(@, [key |-> item_num, value |-> ProductRecord(row, item_num)]),
        !.categories = CategoryStep(@, CategoryName(row))]

\* process_row, "Extract product information"
ProductStep(c, row, item_num) ==
    IF HasKey(c.products, item_num) THEN c
    ELSE [c EXCEPT
            !.products = Append(@, [key |-> item_num,
                                    value |-> ProductRecord(row, item_num)]),
            !.categories = CategoryStep(@, CategoryName(row))]

\* process_row that opens an inventory entry only for a row with an on-hand quantity
InventoryStepIfPresent(inventory, item_num, on_hand) ==
    IF HasKey(inventory, item_num) \/ isna(on_hand) THEN inventory
    ELSE Append(inventory, [key |-> item_num, value |-> IntOrZero(on_hand)])

\* process_row, "Update inventory"
InventoryStep(inventory, item_num, on_hand) ==
    IF HasKey(inventory, item_num) THEN inventory
    ELSE Append(inventory, [key |-> item_num, value |-> IntOrZero(on_hand)])

\* process_row with a vendor map keyed by the name and the address
VendorStepByAddress(vendor_map, vendor_data) ==
    IF \E i \in DOMAIN vendor_map :
           /\ vendor_map[i].key = vendor_data.vendor_name
           /\ vendor_map[i].value.address = vendor_data.address
    THEN vendor_map
    ELSE Append(vendor_map,
                [key |-> vendor_data.vendor_name,
                 value |-> [vendor_id |-> Len(vendor_map) + 1,
                            vendor_name |-> vendor_data.vendor_name,
                            address |-> vendor_data.address,
                            city |-> vendor_data.city,
                            state |-> vendor_data.state,
                            zip_code |-> vendor_data.zip_code]])

\* process_row, "if vendor_key not in self.vendors"
VendorStep(vendor_map, vendor_data) ==
    IF HasKey(vendor_map, vendor_data.vendor_name) THEN vendor_map
    ELSE Append(vendor_map,
                [key |-> vendor_data.vendor_name,
                 value |-> [vendor_id |-> Len(vendor_map) + 1,
                            vendor_name |-> vendor_data.vendor_name,
                            address |-> vendor_data.address,
                            city |-> vendor_data.city,
                            state |-> vendor_data.state,
                            zip_code |-> vendor_data.zip_code]])

\* process_row, "Record purchase"
PurchaseFact(row, item_num, vendor_id) ==
    [product_id |-> item_num,
     vendor_id |-> vendor_id,
     quantity_ordered |-> IntOrZero(row["Quantity"]),
     unit_cost |-> IntOf(row["cost"]),
     purchase_date |-> parse_date(row["purchase date"])]

\* process_row, the purchase block once the vendor is in the vendor map (c is the
\* containers with it): the append of the purchase, then the inventory; the
\* dictionary of the purchase raises before the append, the inventory after it
RecordPurchase(c, row, item_num, vendor_key) ==
    IF IntOrZeroRaises(row["Quantity"]) \/ ~CanInt(row["cost"])
    THEN [c |-> c, raised |-> TRUE]
    ELSE IF ~HasKey(c.inventory, item_num) /\ IntOrZeroRaises(row["quantity on-hand"])
         THEN [c |-> [c EXCEPT !.purchases =
                         Append(@, PurchaseFact(row, item_num,
                                                Get(c.vendors, vendor_key).vendor_id))],
               raised |-> TRUE]
         ELSE [c |-> [c EXCEPT !.purchases =
                         Append(@, PurchaseFact(row, item_num,
                                                Get(c.vendors, vendor_key).vendor_id)),
                               !.inventory =
                         InventoryStep(@, item_num, row["quantity on-hand"])],
               raised |-> FALSE]

PurchaseWithVendor(c, row, item_num, vendor_data) ==
    RecordPurchase([c EXCEPT !.vendors = VendorStep(@, vendor_data)], row, item_num,
                   vendor_data.vendor_name)

\* process_row that takes a vendor string of whitespace as a vendor with no name
PurchaseStepBlankVendor(c, row, item_num) ==
    IF ~(notna(row["vendor"]) /\ notna(row["cost"])) THEN [c |-> c, raised |-> FALSE]
    ELSE PurchaseWithVendor(c, row, item_num,
                            VendorOfParts(Split(row["vendor"], CommaSpace)))

\* process_row, "Process vendor information (for purchases)": the containers
\* after the block, and whether the block raised
PurchaseStep(c, row, item_num) ==
    IF ~(notna(row["vendor"]) /\ notna(row["cost"])) THEN [c |-> c, raised |-> FALSE]
    ELSE IF clean_vendor_data(row["vendor"]) = None THEN [c |-> c, raised |-> FALSE]
    ELSE PurchaseWithVendor(c, row, item_num, clean_vendor_data(row["vendor"])[1])

\* process_row, the sale dictionary
SaleFact(row, item_num, customer_id) ==
    [product_id |-> item_num,
     customer_id |-> customer_id,
     quantity_sold |-> IntOrZero(row["Quantity"]),
     unit_price |-> IntOf(row["price"]),
     sale_date |-> parse_date(row["date sold"])]

\* process_row, "if pd.notna(row['cust']) and str(row['cust']).strip()"
HasCust(row) == notna(row["cust"]) /\ Strip(row["cust"]) # << >>

\* process_row, the append of the sale; the dictionary raises before the append
RecordSale(c, row, item_num, customer_id) ==
    IF IntOrZeroRaises(row["Quantity"]) \/ ~CanInt(row["price"])
    THEN [c |-> c, raised |-> TRUE]
    ELSE [c |-> [c EXCEPT !.sales = Append(@, SaleFact(row, item_num, customer_id))],
          raised |-> FALSE]

\* process_row that records the customer of a row before it looks for a sale
SaleStepCustomerFirst(c, row, item_num) ==
    IF ~HasCust(row) THEN
        IF ~(notna(row["price"]) /\ notna(row["date sold"]))
        THEN [c |-> c, raised |-> FALSE]
        ELSE RecordSale(c, row, item_num, None)
    ELSE IF ~CanInt(row["cust"]) THEN [c |-> c, raised |-> TRUE]
    ELSE IF ~(notna(row["price"]) /\ notna(row["date sold"]))
         THEN [c |-> [c EXCEPT !.customers = @ \cup {IntOf(row["cust"])}],
               raised |-> FALSE]
         ELSE RecordSale([c EXCEPT !.customers = @ \cup {IntOf(row["cust"])}], row,
                         item_num, Some(IntOf(row["cust"])))

\* process_row that records the sale of a customer without the customer
SaleStepCustomerUnrecorded(c, row, item_num) ==
    IF ~(notna(row["price"]) /\ notna(row["date sold"])) THEN [c |-> c, raised |-> FALSE]
    ELSE IF ~HasCust(row) THEN RecordSale(c, row, item_num, None)
    ELSE IF ~CanInt(row["cust"]) THEN [c |-> c, raised |-> TRUE]
    ELSE RecordSale(c, row, item_num, Some(IntOf(row["cust"])))

\* process_row, "Process sales information"
SaleStep(c, row, item_num) ==
    IF ~(notna(row["price"]) /\ notna(row["date sold"])) THEN [c |-> c, raised |-> FALSE]
    ELSE IF ~HasCust(row) THEN RecordSale(c, row, item_num, None)
    ELSE IF ~CanInt(row["cust"]) THEN [c |-> c, raised |-> TRUE]
    ELSE RecordSale([c EXCEPT !.customers = @ \cup {IntOf(row["cust"])}], row,
                    item_num, Some(IntOf(row["cust"])))

\* process_row with the sale block as the elif of the purchase block
FactStepsExclusive(p, row, item_num) ==
    IF p.raised \/ (notna(row["vendor"]) /\ notna(row["cost"])) THEN p
    ELSE SaleStep(p.c, row, item_num)

\* process_row after the product block
FactSteps(p, row, item_num) == IF p.raised THEN p ELSE SaleStep(p.c, row, item_num)

\* process_row(row): int(row['Item num']) first, then the three blocks in turn,
\* each one whatever the others did; an exception leaves what was done so far
process_row(c, row) ==
    IF ~CanInt(row["Item num"]) THEN [c |-> c, raised |-> TRUE]
    ELSE FactSteps(PurchaseStep(ProductStep(c, row, IntOf(row["Item num"])), row,
                                IntOf(row["Item num"])),
                   row, IntOf(row["Item num"]))

\* ----------------------------------------------------------------- the sink
\* The seven relations, each the sequence of its rows in insertion order.
Tables == <<"product_categories", "vendors", "products", "customers", "inventory",
            "purchase_orders", "sales_transactions">>

EmptySink ==
    [product_categories |-> << >>, vendors |-> << >>, products |-> << >>,
     customers |-> << >>, inventory |-> << >>, purchase_orders |-> << >>,
     sales_transactions |-> << >>]

RowsOf(db, table) == {db[table][i] : i \in DOMAIN db[table]}

\* PRIMARY KEY and UNIQUE constraints of the schema; the keys of the two fact
\* tables and of inventory_id are generated by the sink
DuplicateKey(db, table, row) ==
    CASE table = "product_categories" ->
             \E r \in RowsOf(db, table) :
                 r.category_id = row.category_id \/ r.category_name = row.category_name
      [] table = "vendors" -> \E r \in RowsOf(db, table) : r.vendor_id = row.vendor_id
      [] table = "products" -> \E r \in RowsOf(db, table) : r.product_id = row.product_id
      [] table = "customers" ->
             \E r \in RowsOf(db, table) : r.customer_id = row.customer_id
      [] table = "inventory" -> \E r \in RowsOf(db, table) : r.product_id = row.product_id
      [] OTHER -> FALSE

HasCategory(db, id) == \E r \in RowsOf(db, "product_categories") : r.category_id = id
HasVendor(db, id) == \E r \in RowsOf(db, "vendors") : r.vendor_id = id
HasProduct(db, id) == \E r \in RowsOf(db, "products") : r.product_id = id
HasCustomer(db, id) == \E r \in RowsOf(db, "customers") : r.customer_id = id

\* FOREIGN KEY constraints of the schema: a null reference refers to nothing
RefsPresent(db, table, row) ==
    CASE table = "products" ->
             /\ HasCategory(db, row.category_id)
             /\ row.primary_vendor_id # None => HasVendor(db, row.primary_vendor_id[1])
      [] table = "inventory" -> HasProduct(db, row.product_id)
      [] table = "purchase_orders" ->
             HasProduct(db, row.product_id) /\ HasVendor(db, row.vendor_id)
      [] table = "sales_transactions" ->
             /\ HasProduct(db, row.product_id)
             /\ row.customer_id # None => HasCustomer(db, row.customer_id[1])
      [] OTHER -> TRUE

\* NOT NULL constraints of the schema that a row of the loader can violate
NotNullOk(table, row) ==
    CASE table = "purchase_orders" -> row.purchase_date # None
      [] table = "sales_transactions" -> row.sale_date # None
      [] OTHER -> TRUE

Store(db, table, row) == [db EXCEPT ![table] = Append(@, row)]

\* INSERT IGNORE that does not look for the key in the table
InsertIgnoreBlind(db, table, row) ==
    IF ~RefsPresent(db, table, row)
    THEN [db |-> db, outcome |-> "ignored"]
    ELSE [db |-> Store(db, table, row), outcome |-> "stored"]

\* INSERT IGNORE: a row that breaks a constraint is dropped with a warning
InsertIgnore(db, table, row) ==
    IF DuplicateKey(db, table, row) \/ ~RefsPresent(db, table, row)
    THEN [db |-> db, outcome |-> "ignored"]
    ELSE [db |-> Store(db, table, row), outcome |-> "stored"]

\* INSERT that drops a row the table already holds
InsertSkippingEqualRows(db, table, row) ==
    IF DuplicateKey(db, table, row) \/ ~RefsPresent(db, table, row)
       \/ ~NotNullOk(table, row)
    THEN [db |-> db, outcome |-> "error"]
    ELSE IF row \in RowsOf(db, table) THEN [db |-> db, outcome |-> "stored"]
    ELSE [db |-> Store(db, table, row), outcome |-> "stored"]

\* INSERT: a row that breaks a constraint raises Error, which the loader logs
Insert(db, table, row) ==
    IF DuplicateKey(db, table, row) \/ ~RefsPresent(db, table, row)
       \/ ~NotNullOk(table, row)
    THEN [db |-> db, outcome |-> "error"]
    ELSE [db |-> Store(db, table, row), outcome |-> "stored"]

\* --------------------------------------------------------------- the loader
Txt_products_suffix == <<" ", "p", "r", "o", "d", "u", "c", "t", "s">>
Txt_Customer == <<"C", "u", "s", "t", "o", "m", "e", "r">>
Txt_received == <<"r", "e", "c", "e", "i", "v", "e", "d">>

\* load_categories: the parameters of the INSERT
CategoryRow(entry) ==
    [category_id |-> entry.value, category_name |-> entry.key,
     description |-> entry.key \o Txt_products_suffix]

\* load_vendors
VendorRow(entry) == entry.value

\* the scan of the purchases without its break: the last match wins
RECURSIVE PrimaryVendorLast(_, _)
PrimaryVendorLast(purchase_list, product_id) ==
    IF purchase_list = << >> THEN None
    ELSE IF purchase_list[Len(purchase_list)].product_id = product_id
         THEN Some(purchase_list[Len(purchase_list)].vendor_id)
         ELSE PrimaryVendorLast(SubSeq(purchase_list, 1, Len(purchase_list) - 1),
                                product_id)

\* load_products, "Find primary vendor (first vendor that supplies this product)"
RECURSIVE PrimaryVendor(_, _)
PrimaryVendor(purchase_list, product_id) ==
    IF purchase_list = << >> THEN None
    ELSE IF Head(purchase_list).product_id = product_id
         THEN Some(Head(purchase_list).vendor_id)
         ELSE PrimaryVendor(Tail(purchase_list), product_id)

\* load_products
ProductRow(entry, category_map, purchase_list) ==
    [product_id |-> entry.value.product_id,
     product_name |-> entry.value.product_name,
     category_id |-> Get(category_map, entry.value.category),
     unit_of_measure |-> entry.value.unit_of_measure,
     location_code |-> entry.value.location_code,
     primary_vendor_id |-> PrimaryVendor(purchase_list, entry.value.product_id)]

\* load_customers
CustomerRow(customer_id) ==
    [customer_id |-> customer_id, first_name |-> Txt_Customer,
     last_name |-> Numeral(customer_id, 1)]

\* load_inventory
InventoryRow(entry) == [product_id |-> entry.key, quantity_on_hand |-> entry.value]

\* load_purchases
PurchaseRow(purchase) ==
    [product_id |-> purchase.product_id, vendor_id |-> purchase.vendor_id,
     quantity_ordered |-> purchase.quantity_ordered, unit_cost |-> purchase.unit_cost,
     purchase_date |-> purchase.purchase_date, status |-> Txt_received]

\* load_sales
SaleRow(sale) ==
    [product_id |-> sale.product_id, customer_id |-> sale.customer_id,
     quantity_sold |-> sale.quantity_sold, unit_price |-> sale.unit_price,
     sale_date |-> sale.sale_date]

\* ------------------------------------------------------------------ state
VARIABLES
    csv,          \* the rows of the CSV file, in file order
    runs,         \* the number of the current run of main()
    pc,           \* where run_etl is
    rowIdx,       \* parse_csv_data: the row df.iterrows() yields next
    vendors, products, customers, categories, purchases, sales, inventory,
    connection,   \* "none", "open" or "closed"
    sink,         \* the committed content of the database
    work,         \* the database as the open connection sees it: sink and its own
                  \* uncommitted inserts
    loadIdx,      \* load_*: the position of the loop in the container it iterates
    visited,      \* load_customers: the members of the set already iterated
    oplog,        \* history: the statements this run has issued on the connection
    result,       \* what run_etl returned: "none" until it returns
    summary,      \* what print_summary printed, None until it runs
    finished,     \* history: sink and result at the end of every finished run
    faults,       \* the failures of the database server met so far
    peer          \* a second run_etl on the same file and sink, when there is one

mem == <<vendors, products, customers, categories, purchases, sales, inventory>>
vars == <<csv, runs, pc, rowIdx, mem, connection, sink, work, loadIdx, visited,
          oplog, result, summary, finished, faults, peer>>

Containers ==
    [vendors |-> vendors, products |-> products, customers |-> customers,
     categories |-> categories, purchases |-> purchases, sales |-> sales,
     inventory |-> inventory]

SetContainers(c) ==
    /\ vendors' = c.vendors
    /\ products' = c.products
    /\ customers' = c.customers
    /\ categories' = c.categories
    /\ purchases' = c.purchases
    /\ sales' = c.sales
    /\ inventory' = c.inventory

\* run_etl with load_products called before load_vendors
PhasesProductsBeforeVendors ==
    <<"load_categories", "load_products", "load_vendors", "load_customers",
      "load_inventory", "load_purchases", "load_sales">>

\* run_etl with load_sales called before load_purchases
PhasesSalesBeforePurchases ==
    <<"load_categories", "load_vendors", "load_products", "load_customers",
      "load_inventory", "load_sales", "load_purchases">>

\* run_etl: the load phases in the order it calls them
Phases == <<"load_categories", "load_vendors", "load_products", "load_customers",
            "load_inventory", "load_purchases", "load_sales">>

PhaseIndex(p) == CHOOSE i \in DOMAIN Phases : Phases[i] = p
PhaseAfter(p) ==
    IF PhaseIndex(p) < Len(Phases) THEN Phases[PhaseIndex(p) + 1] ELSE "summary"

\* no second run: its position, its loop state and its uncommitted inserts
NoPeer == [pc |-> "none", loadIdx |-> 1, visited |-> {}, pending |-> EmptySink]

Init ==
    /\ csv \in Inputs
    /\ runs = 1
    /\ pc = "connect"
    /\ rowIdx = 1
    /\ vendors = EmptyContainers.vendors
    /\ products = EmptyContainers.products
    /\ customers = EmptyContainers.customers
    /\ categories = EmptyContainers.categories
    /\ purchases = EmptyContainers.purchases
    /\ sales = EmptyContainers.sales
    /\ inventory = EmptyContainers.inventory
    /\ connection = "none"
    /\ sink = EmptySink
    /\ work = EmptySink
    /\ loadIdx = 1
    /\ visited = {}
    /\ oplog = << >>
    /\ result = "none"
    /\ summary = None
    /\ finished = << >>
    /\ faults = 0
    /\ peer = NoPeer

\* ------------------------------------------------------------- run_etl
\* connect_database succeeds: the connection opens on the committed database
Connect ==
    /\ pc = "connect"
    /\ connection' = "open"
    /\ work' = sink
    /\ pc' = "parse"
    /\ UNCHANGED <<csv, runs, rowIdx, mem, sink, loadIdx, visited, oplog, result,
                   summary, finished, faults, peer>>

\* parse_csv_data without the check of the item number
SkipsNoRow(row) == FALSE

\* parse_csv_data: "if pd.isna(row['Item num']): continue"
SkipsRow(row) == isna(row["Item num"])

SkipRow ==
    /\ pc = "parse"
    /\ rowIdx <= Len(csv)
    /\ SkipsRow(csv[rowIdx])
    /\ rowIdx' = rowIdx + 1
    /\ UNCHANGED <<csv, runs, pc, mem, connection, sink, work, loadIdx, visited,
                   oplog, result, summary, finished, faults, peer>>

\* parse_csv_data: process_row returns
ProcessRow ==
    /\ pc = "parse"
    /\ rowIdx <= Len(csv)
    /\ ~SkipsRow(csv[rowIdx])
    /\ ~process_row(Containers, csv[rowIdx]).raised
    /\ SetContainers(process_row(Containers, csv[rowIdx]).c)
    /\ rowIdx' = rowIdx + 1
    /\ UNCHANGED <<csv, runs, pc, connection, sink, work, loadIdx, visited, oplog,
                   result, summary, finished, faults, peer>>

\* parse_csv_data that logs the exception of a row and returns
OnParseErrorLogged == Phases[1]

\* parse_csv_data, "except Exception as e: logger.error(...); raise": the exception
\* reaches the except clause of run_etl
OnParseError == "except"

\* parse_csv_data: process_row raises; the exception is logged and raised again,
\* and run_etl catches it
ProcessRowRaises ==
    /\ pc = "parse"
    /\ rowIdx <= Len(csv)
    /\ ~SkipsRow(csv[rowIdx])
    /\ process_row(Containers, csv[rowIdx]).raised
    /\ SetContainers(process_row(Containers, csv[rowIdx]).c)
    /\ pc' = OnParseError
    /\ UNCHANGED <<csv, runs, rowIdx, connection, sink, work, loadIdx, visited,
                   oplog, result, summary, finished, faults, peer>>

\* parse_csv_data returns after the last row; run_etl calls load_categories
ParseDone ==
    /\ pc = "parse"
    /\ rowIdx > Len(csv)
    /\ pc' = Phases[1]
    /\ loadIdx' = 1
    /\ visited' = {}
    /\ UNCHANGED <<csv, runs, rowIdx, mem, connection, sink, work, oplog, result,
                   summary, finished, faults, peer>>

\* a load loop without its try: the Error of an INSERT reaches run_etl
AfterExecuteUncaught(outcome, p) == IF outcome = "error" THEN "except" ELSE p

\* load_*: "except Error as e: logger.error(...)", and the loop takes the next item
AfterExecute(outcome, p) == p

\* cursor.execute of one INSERT [IGNORE] inside the try of a load loop
Execute(table, row, r) ==
    /\ work' = r.db
    /\ pc' = AfterExecute(r.outcome, pc)
    /\ oplog' = Append(oplog, [op |-> "insert", table |-> table,
                               refs |-> RefsPresent(work, table, row),
                               outcome |-> r.outcome])

\* connection.commit() at the end of a load function, and the return to run_etl
Commit(table) ==
    /\ sink' = work
    /\ oplog' = Append(oplog, [op |-> "commit", table |-> table, refs |-> TRUE,
                               outcome |-> "committed"])
    /\ pc' = PhaseAfter(pc)
    /\ loadIdx' = 1
    /\ visited' = {}
    /\ UNCHANGED <<csv, runs, rowIdx, mem, connection, work, result, summary, finished, faults, peer>>

LoopFrame == UNCHANGED <<csv, runs, rowIdx, mem, connection, sink, visited,
                         result, summary, finished, faults, peer>>

LoadCategoriesInsert ==
    /\ pc = "load_categories"
    /\ loadIdx <= Len(categories)
    /\ LET row == CategoryRow(categories[loadIdx])
       IN  Execute("product_categories", row, InsertIgnore(work, "product_categories", row))
    /\ loadIdx' = loadIdx + 1
    /\ LoopFrame

LoadCategoriesCommit ==
    /\ pc = "load_categories"
    /\ loadIdx > Len(categories)
    /\ Commit("product_categories")

LoadVendorsInsert ==
    /\ pc = "load_vendors"
    /\ loadIdx <= Len(vendors)
    /\ LET row == VendorRow(vendors[loadIdx])
       IN  Execute("vendors", row, InsertIgnore(work, "vendors", row))
    /\ loadIdx' = loadIdx + 1
    /\ LoopFrame

LoadVendorsCommit ==
    /\ pc = "load_vendors"
    /\ loadIdx > Len(vendors)
    /\ Commit("vendors")

LoadProductsInsert ==
    /\ pc = "load_products"
    /\ loadIdx <= Len(products)
    /\ LET row == ProductRow(products[loadIdx], categories, purchases)
       IN  Execute("products", row, InsertIgnore(work, "products", row))
    /\ loadIdx' = loadIdx + 1
    /\ LoopFrame

LoadProductsCommit ==
    /\ pc = "load_products"
    /\ loadIdx > Len(products)
    /\ Commit("products")

\* a Python set is iterated in an order the program does not choose
LoadCustomersInsert ==
    /\ pc = "load_customers"
    /\ \E customer_id \in customers \ visited :
          /\ LET row == CustomerRow(customer_id)
             IN  Execute("customers", row, InsertIgnore(work, "customers", row))
          /\ visited' = visited \cup {customer_id}
    /\ UNCHANGED <<csv, runs, rowIdx, mem, connection, sink, loadIdx, result,
                   summary, finished, faults, peer>>

LoadCustomersCommit ==
    /\ pc = "load_customers"
    /\ visited = customers
    /\ Commit("customers")

LoadInventoryInsert ==
    /\ pc = "load_inventory"
    /\ loadIdx <= Len(inventory)
    /\ LET row == InventoryRow(inventory[loadIdx])
       IN  Execute("inventory", row, InsertIgnore(work, "inventory", row))
    /\ loadIdx' = loadIdx + 1
    /\ LoopFrame

LoadInventoryCommit ==
    /\ pc = "load_inventory"
    /\ loadIdx > Len(inventory)
    /\ Commit("inventory")

LoadPurchasesInsert ==
    /\ pc = "load_purchases"
    /\ loadIdx <= Len(purchases)
    /\ LET row == PurchaseRow(purchases[loadIdx])
       IN  Execute("purchase_orders", row, Insert(work, "purchase_orders", row))
    /\ loadIdx' = loadIdx + 1
    /\ LoopFrame

LoadPurchasesCommit ==
    /\ pc = "load_purchases"
    /\ loadIdx > Len(purchases)
    /\ Commit("purchase_orders")

LoadSalesInsert ==
    /\ pc = "load_sales"
    /\ loadIdx <= Len(sales)
    /\ LET row == SaleRow(sales[loadIdx])
       IN  Execute("sales_transactions", row, Insert(work, "sales_transactions", row))
    /\ loadIdx' = loadIdx + 1
    /\ LoopFrame

LoadSalesCommit ==
    /\ pc = "load_sales"
    /\ loadIdx > Len(sales)
    /\ Commit("sales_transactions")

\* print_summary, then "return True"
PrintSummary ==
    /\ pc = "summary"
    /\ summary' = Some([categories |-> Len(categories), vendors |-> Len(vendors),
                        products |-> Len(products),
                        customers |-> Cardinality(customers),
                        inventory |-> Len(inventory), purchases |-> Len(purchases),
                        sales |-> Len(sales)])
    /\ result' = "True"
    /\ pc' = "finally"
    /\ UNCHANGED <<csv, runs, rowIdx, mem, connection, sink, work, loadIdx, visited,
                   oplog, finished, faults, peer>>

\* "except Exception": connection.rollback(), then "return False"
HandleException ==
    /\ pc = "except"
    /\ work' = sink
    /\ oplog' = Append(oplog, [op |-> "rollback", table |-> "", refs |-> TRUE,
                               outcome |-> "rolled back"])
    /\ result' = "False"
    /\ pc' = "finally"
    /\ UNCHANGED <<csv, runs, rowIdx, mem, connection, sink, loadIdx, visited,
                   summary, finished, faults, peer>>

\* disconnect_database that closes nothing
disconnect_database_leaks(conn) == conn

\* disconnect_database: "if self.connection: self.connection.close()"
disconnect_database(conn) == IF conn = "open" THEN "closed" ELSE conn

\* "finally": disconnect_database closes the connection if there is one; what was
\* not committed is gone
Disconnect ==
    /\ pc = "finally"
    /\ connection' = disconnect_database(connection)
    /\ work' = sink
    /\ pc' = "done"
    /\ finished' = Append(finished, [sink |-> sink, result |-> result])
    /\ UNCHANGED <<csv, runs, rowIdx, mem, sink, loadIdx, visited, oplog, result,
                   summary, faults, peer>>

\* main() is started again on the same file: a fresh GreenspotETL, the same sink
NextRun ==
    /\ pc = "done"
    /\ runs < MaxRuns
    /\ runs' = runs + 1
    /\ pc' = "connect"
    /\ rowIdx' = 1
    /\ SetContainers(EmptyContainers)
    /\ connection' = "none"
    /\ loadIdx' = 1
    /\ visited' = {}
    /\ oplog' = << >>
    /\ result' = "none"
    /\ summary' = None
    /\ UNCHANGED <<csv, sink, work, finished, faults, peer>>

Next ==
    \/ Connect
    \/ SkipRow
    \/ ProcessRow
    \/ ProcessRowRaises
    \/ ParseDone
    \/ LoadCategoriesInsert
    \/ LoadCategoriesCommit
    \/ LoadVendorsInsert
    \/ LoadVendorsCommit
    \/ LoadProductsInsert
    \/ LoadProductsCommit
    \/ LoadCustomersInsert
    \/ LoadCustomersCommit
    \/ LoadInventoryInsert
    \/ LoadInventoryCommit
    \/ LoadPurchasesInsert
    \/ LoadPurchasesCommit
    \/ LoadSalesInsert
    \/ LoadSalesCommit
    \/ PrintSummary
    \/ HandleException
    \/ Disconnect
    \/ NextRun

Spec == Init /\ [][Next]_vars

\* ------------------------------------------------- failures of the server
\* The statements of run_etl can fail for reasons outside the program (the server
\* is down, a lock wait times out, the connection drops): mysql.connector raises
\* Error.  At most MaxFaults such failures happen in a behaviour.

\* run_etl that goes on after connect_database returned False
OnConnectFailureIgnored == "parse"

\* run_etl: "if not self.connect_database(): return False", then the finally
OnConnectFailure == "finally"

\* connect_database: mysql.connector.connect raises Error, which is logged;
\* connect_database returns False and self.connection stays None
ConnectFails ==
    /\ pc = "connect"
    /\ faults < MaxFaults
    /\ faults' = faults + 1
    /\ result' = IF OnConnectFailure = "finally" THEN "False" ELSE result
    /\ pc' = OnConnectFailure
    /\ UNCHANGED <<csv, runs, rowIdx, mem, connection, sink, work, loadIdx, visited,
                   oplog, summary, finished, peer>>

PhaseTable(p) == Tables[PhaseIndex(p)]

\* the parameters of the INSERT the loop of load phase p issues at position idx of
\* its container: none when the loop is over, any member not yet seen for the set
\* of customers
LoopRows(p, idx, seen) ==
    CASE p = "load_categories" ->
             IF idx <= Len(categories) THEN {CategoryRow(categories[idx])} ELSE {}
      [] p = "load_vendors" ->
             IF idx <= Len(vendors) THEN {VendorRow(vendors[idx])} ELSE {}
      [] p = "load_products" ->
             IF idx <= Len(products)
             THEN {ProductRow(products[idx], categories, purchases)} ELSE {}
      [] p = "load_customers" -> {CustomerRow(id) : id \in customers \ seen}
      [] p = "load_inventory" ->
             IF idx <= Len(inventory) THEN {InventoryRow(inventory[idx])} ELSE {}
      [] p = "load_purchases" ->
             IF idx <= Len(purchases) THEN {PurchaseRow(purchases[idx])} ELSE {}
      [] p = "load_sales" ->
             IF idx <= Len(sales) THEN {SaleRow(sales[idx])} ELSE {}
      [] OTHER -> {}

\* the parameters of the INSERT the loop of load phase p can issue next
NextRows(p) == LoopRows(p, loadIdx, visited)

\* cursor.execute raises Error for a reason of the server: the except of the
\* loop logs it and the loop takes the next item
ExecuteFails ==
    /\ pc \in {Phases[i] : i \in DOMAIN Phases}
    /\ faults < MaxFaults
    /\ faults' = faults + 1
    /\ \E row \in NextRows(pc) :
          /\ oplog' = Append(oplog, [op |-> "insert", table |-> PhaseTable(pc),
                                     refs |-> RefsPresent(work, PhaseTable(pc), row),
                                     outcome |-> "error"])
          /\ visited' = IF pc = "load_customers" THEN visited \cup {row.customer_id}
                        ELSE visited
    /\ loadIdx' = IF pc = "load_customers" THEN loadIdx ELSE loadIdx + 1
    /\ pc' = AfterExecute("error", pc)
    /\ UNCHANGED <<csv, runs, rowIdx, mem, connection, sink, work, result,
                   summary, finished, peer>>

\* a load function with its commit inside a try that logs the Error
OnCommitErrorLogged(p) == PhaseAfter(p)

\* connection.commit() is outside the try of the loop: the Error leaves the load
\* function and is caught by the except of run_etl
OnCommitError(p) == "except"

\* connection.commit() raises Error: nothing of the transaction is committed
CommitFails ==
    /\ pc \in {Phases[i] : i \in DOMAIN Phases}
    /\ NextRows(pc) = {}
    /\ faults < MaxFaults
    /\ faults' = faults + 1
    /\ oplog' = Append(oplog, [op |-> "commit", table |-> PhaseTable(pc),
                               refs |-> TRUE, outcome |-> "error"])
    /\ pc' = OnCommitError(pc)
    /\ loadIdx' = IF OnCommitError(pc) = "except" THEN loadIdx ELSE 1
    /\ visited' = IF OnCommitError(pc) = "except" THEN visited ELSE {}
    /\ UNCHANGED <<csv, runs, rowIdx, mem, connection, sink, work, result, summary,
                   finished, peer>>

NextFault ==
    \/ Next
    \/ ConnectFails
    \/ ExecuteFails
    \/ CommitFails

SpecFault == Init /\ [][NextFault]_vars

\* parse_csv_data takes the row the scan is at: the step of ProcessRow or of
\* ProcessRowRaises, told by what it does to the scan
RowTaken ==
    /\ pc = "parse"
    /\ rowIdx <= Len(csv)
    /\ ~SkipsRow(csv[rowIdx])
    /\ \/ pc' = "parse" /\ rowIdx' = rowIdx + 1
       \/ pc' = "except" /\ rowIdx' = rowIdx
    /\ UNCHANGED <<runs, loadIdx, visited>>

\* where the program is: every step of the program moves it
position == <<runs, pc, rowIdx, loadIdx, visited>>

\* the steps of the program itself, a failure of the server being none
ProgramStep ==
    \/ Connect \/ SkipRow \/ RowTaken \/ ParseDone
    \/ LoadCategoriesInsert \/ LoadCategoriesCommit
    \/ LoadVendorsInsert \/ LoadVendorsCommit
    \/ LoadProductsInsert \/ LoadProductsCommit
    \/ LoadCustomersInsert \/ LoadCustomersCommit
    \/ LoadInventoryInsert \/ LoadInventoryCommit
    \/ LoadPurchasesInsert \/ LoadPurchasesCommit
    \/ LoadSalesInsert \/ LoadSalesCommit
    \/ PrintSummary \/ HandleException \/ Disconnect \/ NextRun

\* run_etl is one sequential thread and the calls it makes return: a step the
\* program can take is taken, unless the server fails the statement instead
FairSpecFault == SpecFault /\ WF_position(ProgramStep)

\* ------------------------------------------------------------- properties
Inserts == {i \in DOMAIN oplog : oplog[i].op = "insert"}
Commits == {i \in DOMAIN oplog : oplog[i].op = "commit"}
NoInsertFailed == \A i \in Inserts : oplog[i].outcome # "error"
Loading == pc \in {Phases[i] : i \in DOMAIN Phases} \cup {"summary"}

\* C1: referential safety by load ordering.  Whenever the loader issues an insert,
\* every entity the row references by id (a product's category and non-null primary
\* vendor, an inventory row's product, a purchase's product and vendor, a sale's
\* product and non-null customer) is in the sink at that moment, so no row ever
\* enters the sink before what it references.
C1_ReferencesLoadedFirst == \A i \in Inserts : oplog[i].refs

\* a run that has loaded a product with a primary vendor, an inventory row, a
\* purchase and a sale of a known customer
C1_Witness ==
    /\ pc = "summary"
    /\ \E r \in RowsOf(work, "products") : r.primary_vendor_id # None
    /\ work.inventory # << >>
    /\ work.purchase_orders # << >>
    /\ \E r \in RowsOf(work, "sales_transactions") : r.customer_id # None
    /\ \A t \in {"products", "inventory", "purchase_orders", "sales_transactions"} :
          \E i \in Inserts : oplog[i].table = t /\ oplog[i].outcome = "stored"

\* C2: the load phases run in the order Categories, Vendors, Products, Customers,
\* Inventory, PurchaseOrders, SaleTransactions: the statements of a run are issued
\* in the order of the tables, an insert is issued only after the commit of every
\* earlier table and before the commit of its own, a run that reaches the summary
\* has committed the seven tables in that order, and nothing is issued before the
\* last row of the file is parsed.
C2_Order == <<"product_categories", "vendors", "products", "customers", "inventory",
              "purchase_orders", "sales_transactions">>

C2_Rank(t) == CHOOSE k \in DOMAIN C2_Order : C2_Order[k] = t

C2_StrictPhaseOrder ==
    /\ \A i, j \in Inserts \cup Commits :
          i < j => C2_Rank(oplog[i].table) <= C2_Rank(oplog[j].table)
    /\ \A j \in Inserts :
          /\ \A k \in 1..(C2_Rank(oplog[j].table) - 1) :
                \E i \in Commits : i < j /\ oplog[i].table = C2_Order[k]
          /\ \A i \in Commits : i < j => oplog[i].table # oplog[j].table
    /\ pc = "summary" =>
          /\ Cardinality(Commits) = Len(C2_Order)
          /\ \A k \in DOMAIN C2_Order : \E i \in Commits : oplog[i].table = C2_Order[k]
    /\ Inserts \cup Commits # {} => rowIdx > Len(csv)

\* a run that has inserted into each of the seven tables and committed them all
C2_Witness ==
    /\ pc = "summary"
    /\ \A k \in DOMAIN C2_Order : \E i \in Inserts : oplog[i].table = C2_Order[k]
    /\ Cardinality(Commits) = Len(C2_Order)

\* C3: dimension idempotence.  When the second run on the same file ends, the
\* Category, Vendor, Product, Customer and Inventory tables hold exactly the rows
\* the first run left in the initially empty sink, none of them twice; the second
\* run got no error from an insert into these tables, and it returned what the
\* first run returned.
DimensionTables == {"product_categories", "vendors", "products", "customers",
                    "inventory"}

C3_DimensionIdempotence ==
    (pc = "done" /\ Len(finished) >= 2) =>
        /\ \A t \in DimensionTables : sink[t] = finished[1].sink[t]
        /\ \A t \in DimensionTables :
              \A i, j \in DOMAIN sink[t] : sink[t][i] = sink[t][j] => i = j
        /\ \A i \in Inserts : oplog[i].table \in DimensionTables =>
              oplog[i].outcome # "error"
        /\ result = finished[1].result

\* the second run has ended after it issued an insert for a row of every
\* dimension table, all of them already loaded by the first run
C3_Witness ==
    /\ pc = "done"
    /\ Len(finished) >= 2
    /\ result = "True"
    /\ \A t \in DimensionTables :
          /\ sink[t] # << >>
          /\ \E i \in Inserts : oplog[i].table = t /\ oplog[i].outcome = "ignored"

\* C4: the fact tables are append-only, without deduplication.  When a run ends
\* in which no insert failed, the PurchaseOrder table holds, for every run so far,
\* one row for every parsed purchase fact in the order of the facts, and the
\* SaleTransaction table one row for every parsed sale fact: k runs leave k times
\* the fact rows of one run, identical facts included.
C4_FactsAppendOnly ==
    (pc = "done" /\ result = "True" /\ NoInsertFailed) =>
        /\ Len(sink.purchase_orders) = runs * Len(purchases)
        /\ Len(sink.sales_transactions) = runs * Len(sales)
        /\ \A k \in 0..(runs - 1) :
              /\ \A j \in DOMAIN purchases :
                    sink.purchase_orders[k * Len(purchases) + j] = PurchaseRow(purchases[j])
              /\ \A j \in DOMAIN sales :
                    sink.sales_transactions[k * Len(sales) + j] = SaleRow(sales[j])

\* the second run has ended on a file with the same purchase and the same sale
\* twice, no insert failed, and each fact is in its table four times
C4_Witness ==
    /\ pc = "done"
    /\ runs = 2
    /\ result = "True"
    /\ NoInsertFailed
    /\ Len(purchases) = 2 /\ purchases[1] = purchases[2]
    /\ Len(sales) = 2 /\ sales[1] = sales[2]
    /\ Len(sink.purchase_orders) = 4
    /\ Len(sink.sales_transactions) = 4

\* C5: primary-vendor tie-break.  While a run loads, every product row that
\* load_products has put in the sink has as primary_vendor_id the vendor_id of the
\* first purchase fact, in source order, with the product's id, and null exactly
\* when no purchase fact has it.
C5_FirstPurchase(product_id) ==
    {i \in DOMAIN purchases :
        /\ purchases[i].product_id = product_id
        /\ \A j \in DOMAIN purchases : purchases[j].product_id = product_id => i <= j}

C5_PrimaryVendorIsFirst ==
    Loading =>
        \A r \in RowsOf(work, "products") :
            /\ r.primary_vendor_id = None <=> C5_FirstPurchase(r.product_id) = {}
            /\ \A i \in C5_FirstPurchase(r.product_id) :
                  r.primary_vendor_id = Some(purchases[i].vendor_id)

\* a product bought from vendor A and then from vendor B is loaded with A, and a
\* product without a purchase is loaded with null
C5_Witness ==
    /\ Loading
    /\ Len(purchases) = 2
    /\ purchases[1].product_id = purchases[2].product_id
    /\ purchases[1].vendor_id # purchases[2].vendor_id
    /\ \E i \in Inserts : oplog[i].table = "products" /\ oplog[i].outcome = "stored"
    /\ \E r \in RowsOf(work, "products") :
          /\ r.product_id = purchases[1].product_id
          /\ r.primary_vendor_id = Some(purchases[1].vendor_id)

\* C6: last-write-wins inventory.  While a run loads, every inventory row in the
\* sink holds the on-hand value of the last row of the file, in source order, that
\* carries a purchase of the row's product.
C6_PurchaseRows(product_id) ==
    {i \in DOMAIN csv :
        /\ CanInt(csv[i]["Item num"])
        /\ IntOf(csv[i]["Item num"]) = product_id
        /\ notna(csv[i]["vendor"]) /\ notna(csv[i]["cost"])
        /\ clean_vendor_data(csv[i]["vendor"]) # None}

C6_LastWriteWins ==
    Loading =>
        \A r \in RowsOf(work, "inventory") :
            \A i \in C6_PurchaseRows(r.product_id) :
                (/\ \A j \in C6_PurchaseRows(r.product_id) : j <= i
                 /\ ~IntOrZeroRaises(csv[i]["quantity on-hand"]))
                => r.quantity_on_hand = IntOrZero(csv[i]["quantity on-hand"])

\* C7: classification independence.  A row with a first-time item number, a vendor
\* string that parses, a cost, a price and a sale date that parse, and whose other
\* numeric cells are blank or numerals, adds exactly one product, exactly one
\* purchase fact with one inventory snapshot, and exactly one sale fact, all for
\* its item number.
C7_Row(row) ==
    /\ CanInt(row["Item num"])
    /\ ~HasKey(products, IntOf(row["Item num"]))
    /\ clean_vendor_data(row["vendor"]) # None
    /\ CanInt(row["cost"])
    /\ CanInt(row["price"])
    /\ parse_date(row["date sold"]) # None
    /\ ~IntOrZeroRaises(row["Quantity"])
    /\ ~IntOrZeroRaises(row["quantity on-hand"])
    /\ HasCust(row) => CanInt(row["cust"])

C7_ClassificationIndependence ==
    [][(pc = "parse" /\ rowIdx <= Len(csv) /\ C7_Row(csv[rowIdx])) =>
          /\ Len(products') = Len(products) + 1
          /\ SubSeq(products', 1, Len(products)) = products
          /\ products'[Len(products')].key = IntOf(csv[rowIdx]["Item num"])
          /\ Len(purchases') = Len(purchases) + 1
          /\ SubSeq(purchases', 1, Len(purchases)) = purchases
          /\ purchases'[Len(purchases')].product_id = IntOf(csv[rowIdx]["Item num"])
          /\ Len(inventory') = Len(inventory) + 1
          /\ SubSeq(inventory', 1, Len(inventory)) = inventory
          /\ inventory'[Len(inventory')].key = IntOf(csv[rowIdx]["Item num"])
          /\ Len(sales') = Len(sales) + 1
          /\ SubSeq(sales', 1, Len(sales)) = sales
          /\ sales'[Len(sales')].product_id = IntOf(csv[rowIdx]["Item num"])]_vars

\* the second row of the file was such a row for a second product: it has left a
\* second product, purchase, snapshot and sale
C7_Witness ==
    /\ pc = "parse"
    /\ rowIdx = Len(csv) + 1
    /\ Len(csv) >= 2
    /\ Len(products) = 2 /\ Len(purchases) = 2 /\ Len(inventory) = 2 /\ Len(sales) = 2
    /\ purchases[2].product_id = products[2].key
    /\ sales[2].product_id = products[2].key
    /\ inventory[2].key = products[2].key

\* C8: skip rule.  A row with a blank item number leaves every in-memory container
\* as it is, whatever its other cells hold, and the scan goes on to the next row.
C8_BlankItemSkipped ==
    [][(pc = "parse" /\ rowIdx <= Len(csv) /\ isna(csv[rowIdx]["Item num"])) =>
          /\ UNCHANGED mem
          /\ rowIdx' = rowIdx + 1
          /\ pc' = "parse"]_vars

\* a first row with a blank item number and every other cell filled was passed
\* over, and the row after it was processed
C8_Witness ==
    /\ pc = "parse"
    /\ rowIdx = 3
    /\ isna(csv[1]["Item num"])
    /\ \A c \in Columns \ {"Item num"} : notna(csv[1][c])
    /\ Len(products) = 1 /\ Len(purchases) = 1 /\ Len(sales) = 1

\* C9: a row whose item number is present but is no integer is skipped entirely:
\* it leaves every container as it is and the scan goes on to the next row.
C9_UnparseableItemSkipped ==
    [][(/\ pc = "parse" /\ rowIdx <= Len(csv)
        /\ notna(csv[rowIdx]["Item num"]) /\ ~CanInt(csv[rowIdx]["Item num"])) =>
          /\ UNCHANGED mem
          /\ rowIdx' = rowIdx + 1
          /\ pc' = "parse"]_vars

\* C10: a row whose cost or quantity cell is present but unparseable does not stop
\* the run: the scan goes on to the next row, and a purchase or sale fact the row
\* emits with an unparseable quantity carries the quantity 0.
C10_Unparseable(cell) == notna(cell) /\ ~CanInt(cell)

C10_ParseWarningRecoverable ==
    [][(/\ pc = "parse" /\ rowIdx <= Len(csv)
        /\ CanInt(csv[rowIdx]["Item num"])
        /\ C10_Unparseable(csv[rowIdx]["cost"])
              \/ C10_Unparseable(csv[rowIdx]["Quantity"])) =>
          /\ rowIdx' = rowIdx + 1
          /\ pc' = "parse"
          /\ C10_Unparseable(csv[rowIdx]["Quantity"]) =>
                /\ \A i \in DOMAIN purchases' \ DOMAIN purchases :
                      purchases'[i].quantity_ordered = 0
                /\ \A i \in DOMAIN sales' \ DOMAIN sales :
                      sales'[i].quantity_sold = 0]_vars

\* C11: parse_date never fails.  On a row whose numeric cells parse, a purchase
\* whose date is missing or is no MM/DD/YYYY date, and a sale whose date is present
\* but is no MM/DD/YYYY date, is still recorded, with a null date; the row is not
\* skipped and the scan goes on to the next row.
C11_NoDate(cell) == isna(cell) \/ ~StrpTimeOk(Strip(cell))

C11_NumbersParse(row) ==
    /\ CanInt(row["Item num"])
    /\ ~IntOrZeroRaises(row["Quantity"])
    /\ ~IntOrZeroRaises(row["quantity on-hand"])
    /\ ~IntOrZeroRaises(row["cost"])
    /\ ~IntOrZeroRaises(row["price"])
    /\ HasCust(row) => CanInt(row["cust"])

C11_DateFailureIsNull ==
    [][(pc = "parse" /\ rowIdx <= Len(csv) /\ C11_NumbersParse(csv[rowIdx])) =>
          /\ pc' = "parse"
          /\ rowIdx' = rowIdx + 1
          /\ (/\ clean_vendor_data(csv[rowIdx]["vendor"]) # None
              /\ notna(csv[rowIdx]["cost"])
              /\ C11_NoDate(csv[rowIdx]["purchase date"])) =>
                /\ Len(purchases') = Len(purchases) + 1
                /\ SubSeq(purchases', 1, Len(purchases)) = purchases
                /\ purchases'[Len(purchases')].product_id = IntOf(csv[rowIdx]["Item num"])
                /\ purchases'[Len(purchases')].purchase_date = None
          /\ (/\ notna(csv[rowIdx]["price"])
              /\ notna(csv[rowIdx]["date sold"])
              /\ C11_NoDate(csv[rowIdx]["date sold"])) =>
                /\ Len(sales') = Len(sales) + 1
                /\ SubSeq(sales', 1, Len(sales)) = sales
                /\ sales'[Len(sales')].product_id = IntOf(csv[rowIdx]["Item num"])
                /\ sales'[Len(sales')].sale_date = None]_vars

\* the first row was sold on 13/40/2025 and the second has no purchase date: both
\* rows left their purchase and their sale, the dates in question null, the other
\* dates normalised
C11_Witness ==
    /\ pc = "parse"
    /\ rowIdx = 3
    /\ csv[1]["date sold"] = Txt_no_such_day
    /\ isna(csv[2]["purchase date"])
    /\ Len(purchases) = 2 /\ Len(sales) = 2
    /\ sales[1].sale_date = None /\ sales[2].sale_date # None
    /\ purchases[1].purchase_date # None /\ purchases[2].purchase_date = None

\* C12: EntityLoadError is recoverable.  An insert that fails never ends a run
\* (a run reaches the except of run_etl only from the parser or from a commit that
\* failed), and when the last load phase has returned, every phase has issued one
\* insert for every entity and fact of its container and has committed, whatever
\* inserts failed on the way.
CommittedTables ==
    {oplog[i].table : i \in {j \in Commits : oplog[j].outcome = "committed"}}
InsertsInto(table) == {i \in Inserts : oplog[i].table = table}
ContainerSize(p) ==
    CASE p = "load_categories" -> Len(categories)
      [] p = "load_vendors" -> Len(vendors)
      [] p = "load_products" -> Len(products)
      [] p = "load_customers" -> Cardinality(customers)
      [] p = "load_inventory" -> Len(inventory)
      [] p = "load_purchases" -> Len(purchases)
      [] p = "load_sales" -> Len(sales)

C12_EntityLoadErrorRecoverable ==
    /\ pc = "except" =>
          \/ oplog = << >>
          \/ oplog[Len(oplog)].op = "commit" /\ oplog[Len(oplog)].outcome = "error"
    /\ pc = "summary" =>
          \A k \in DOMAIN Phases :
              /\ Cardinality(InsertsInto(PhaseTable(Phases[k]))) = ContainerSize(Phases[k])
              /\ PhaseTable(Phases[k]) \in CommittedTables

\* the last phase has returned in a run in which the insert of the first category
\* failed and the insert of the second was stored, and an insert of a purchase
\* failed as well
C12_Witness ==
    /\ pc = "summary"
    /\ \E i, j \in InsertsInto("product_categories") :
          i < j /\ oplog[i].outcome = "error" /\ oplog[j].outcome = "stored"
    /\ \E i \in InsertsInto("purchase_orders") : oplog[i].outcome = "error"
    /\ \E i \in InsertsInto("sales_transactions") : oplog[i].outcome = "stored"

\* C13: PhaseCommitError is fatal.  Once the commit of a load phase has failed, the
\* run issues no further insert or commit and returns False; the table of the
\* failing phase and the tables of the later phases hold what they held when the
\* run began, so the inserts of the failing phase are not in the sink; the tables
\* of the phases committed before hold, after what they held when the run began,
\* one more row for every insert of the run that was stored.
FailedCommits == {i \in Commits : oplog[i].outcome = "error"}
StoredInto(table) == {i \in InsertsInto(table) : oplog[i].outcome = "stored"}
SinkAtStart == IF runs = 1 THEN EmptySink ELSE finished[runs - 1].sink
TableRank(t) == CHOOSE k \in DOMAIN Tables : Tables[k] = t

C13_AfterFailedCommit(f, before) ==
    /\ \A i \in DOMAIN oplog : i > f => oplog[i].op = "rollback"
    /\ pc \in {"except", "finally", "done"}
    /\ pc # "except" => result = "False" /\ work = sink
    /\ \A k \in DOMAIN Tables :
          IF k < TableRank(oplog[f].table)
          THEN /\ Len(sink[Tables[k]]) =
                     Len(before[Tables[k]]) + Cardinality(StoredInto(Tables[k]))
               /\ SubSeq(sink[Tables[k]], 1, Len(before[Tables[k]])) = before[Tables[k]]
          ELSE sink[Tables[k]] = before[Tables[k]]

C13_PhaseCommitErrorFatal ==
    \A f \in FailedCommits : C13_AfterFailedCommit(f, SinkAtStart)

\* a first run has ended after the commit of load_products failed: inserts of
\* products had been stored on the connection, the sink holds the categories and
\* the vendors and no product
C13_Witness ==
    /\ pc = "done"
    /\ runs = 1
    /\ \E f \in FailedCommits : oplog[f].table = "products"
    /\ StoredInto("products") # {}
    /\ sink.product_categories # << >>
    /\ sink.vendors # << >>
    /\ sink.products = << >>
    /\ result = "False"

\* C14: every run that has ended, successful or failed, has produced a run
\* summary.
C14_SummaryAlways == pc = "done" => summary # None

\* C15: the run summary counts what was loaded.  For each of the seven kinds the
\* count the summary prints is the number of rows of that kind the run has stored
\* in the sink, inserts that were ignored or failed not counted.
SummaryKinds ==
    <<"categories", "vendors", "products", "customers", "inventory", "purchases",
      "sales">>

C15_SummaryCountsLoaded ==
    summary # None =>
        \A k \in DOMAIN Tables :
            summary[1][SummaryKinds[k]] = Cardinality(StoredInto(Tables[k]))

\* C16: SinkConnectionError is pre-flight.  In a run whose connection could not be
\* opened, run_etl has returned False without taking a row of the file, every
\* container is empty, no statement was issued and the sink is as the run found it.
ConnectFailed == pc # "connect" /\ connection = "none"

C16_ConnectionErrorPreFlight ==
    ConnectFailed =>
        /\ pc \in {"finally", "done"}
        /\ result = "False"
        /\ rowIdx = 1
        /\ Containers = EmptyContainers
        /\ oplog = << >>
        /\ sink = SinkAtStart

\* the second run on a file could not connect and has ended; the first run had
\* loaded the file
C16_Witness ==
    /\ pc = "done"
    /\ runs = 2
    /\ ConnectFailed
    /\ Len(finished) = 2
    /\ finished[1].result = "True"
    /\ finished[2].result = "False"
    /\ sink.products # << >>

\* C17: the sink connection is a scoped resource.  A run opens it only as its first
\* step, before it has taken a row or issued a statement; it is open while the run
\* parses, loads, prints its summary or handles an exception; a statement is
\* issued only on the open connection; a run that has ended holds no open
\* connection; and a connection that is open is eventually closed, whatever way
\* the run takes out of run_etl.
C17_Working ==
    pc \in {"parse", "summary", "except"} \cup {Phases[i] : i \in DOMAIN Phases}

C17_ScopedConnection ==
    /\ [](C17_Working => connection = "open")
    /\ [](pc = "done" => connection # "open")
    /\ [][(connection # "open" /\ connection' = "open") =>
             pc = "connect" /\ rowIdx = 1 /\ oplog = << >>]_vars
    /\ [][(oplog' # oplog /\ oplog' # << >>) =>
             connection = "open" /\ connection' = "open"]_vars
    /\ (connection = "open" ~> connection = "closed")

\* a run has ended after a commit failed and was rolled back: its connection is
\* closed
C17_Witness ==
    /\ pc = "done"
    /\ FailedCommits # {}
    /\ oplog[Len(oplog)].op = "rollback"
    /\ result = "False"
    /\ connection = "closed"

\* C18: vendor identity is the parsed vendor name.  No two entries of the vendor
\* map have the same name, and a purchase row whose vendor string parses to a name
\* the map already holds leaves the map as it is, so the entry keeps the id and the
\* address fields of the first mention, and the purchase it records carries that id.
C18_KnownVendor(row) ==
    /\ CanInt(row["Item num"])
    /\ notna(row["cost"])
    /\ clean_vendor_data(row["vendor"]) # None
    /\ HasKey(vendors, clean_vendor_data(row["vendor"])[1].vendor_name)

C18_OneEntryPerName(vendor_map) ==
    \A i, j \in DOMAIN vendor_map : vendor_map[i].key = vendor_map[j].key => i = j

C18_VendorIdentityByName ==
    [][/\ C18_OneEntryPerName(vendors')
       /\ (pc = "parse" /\ rowIdx <= Len(csv) /\ C18_KnownVendor(csv[rowIdx])) =>
             /\ vendors' = vendors
             /\ \A i \in DOMAIN purchases' \ DOMAIN purchases :
                   purchases'[i].vendor_id =
                       Get(vendors, clean_vendor_data(csv[rowIdx]["vendor"])[1]
                                        .vendor_name).vendor_id]_vars

\* Bennet Farms of Rt. 17, Evansville, then Bennet Farms of Rt. 18: one vendor,
\* with the address of the first row, and two purchases from it
C18_Witness ==
    /\ pc = "parse"
    /\ rowIdx = 3
    /\ csv[1]["vendor"] = Txt_Bennet
    /\ csv[2]["vendor"] = Txt_Bennet_moved
    /\ Len(vendors) = 1
    /\ vendors[1].value.address = <<"R", "t", ".", " ", "1", "7">>
    /\ Len(purchases) = 2
    /\ purchases[1].vendor_id = 1 /\ purchases[2].vendor_id = 1

\* C19: surrogate ids are dense and first-seen ordered.  At every moment the i-th
\* entry of the category map has id i and the i-th entry of the vendor map has id
\* i, no name is twice in a map, and within a run an entry is never changed or
\* removed; while the file is scanned, the names of the category map are the
\* categories of the rows that defined a product and the names of the vendor map
\* the vendors of the rows that recorded a purchase, and of two names the one whose
\* first such row comes earlier has the smaller id.
C19_DefinesProduct(k) ==
    /\ ~SkipsRow(csv[k])
    /\ \A j \in 1..(k - 1) : SkipsRow(csv[j]) \/ csv[j]["Item num"] # csv[k]["Item num"]

C19_NamesVendor(k) ==
    /\ ~SkipsRow(csv[k])
    /\ notna(csv[k]["cost"])
    /\ clean_vendor_data(csv[k]["vendor"]) # None

C19_CategoryRows(name) ==
    {k \in 1..(rowIdx - 1) : C19_DefinesProduct(k) /\ CategoryName(csv[k]) = name}

C19_VendorRows(name) ==
    {k \in 1..(rowIdx - 1) :
        C19_NamesVendor(k) /\ clean_vendor_data(csv[k]["vendor"])[1].vendor_name = name}

C19_Before(first, later) == first # {} /\ \E k \in first : \A j \in later : k < j

C19_Dense ==
    /\ \A i \in DOMAIN categories : categories[i].value = i
    /\ \A i, j \in DOMAIN categories : categories[i].key = categories[j].key => i = j
    /\ \A i \in DOMAIN vendors : vendors[i].value.vendor_id = i
    /\ C18_OneEntryPerName(vendors)

C19_FirstSeen ==
    /\ \A k \in 1..(rowIdx - 1) :
          /\ C19_DefinesProduct(k) => HasKey(categories, CategoryName(csv[k]))
          /\ C19_NamesVendor(k) =>
                HasKey(vendors, clean_vendor_data(csv[k]["vendor"])[1].vendor_name)
    /\ \A i \in DOMAIN categories : C19_CategoryRows(categories[i].key) # {}
    /\ \A i \in DOMAIN vendors : C19_VendorRows(vendors[i].key) # {}
    /\ \A i, j \in DOMAIN categories :
          i < j => C19_Before(C19_CategoryRows(categories[i].key),
                              C19_CategoryRows(categories[j].key))
    /\ \A i, j \in DOMAIN vendors :
          i < j => C19_Before(C19_VendorRows(vendors[i].key),
                              C19_VendorRows(vendors[j].key))

C19_DenseFirstSeenIds ==
    /\ []C19_Dense
    /\ [](pc = "parse" => C19_FirstSeen)
    /\ [][pc' # "connect" =>
             /\ Len(categories') >= Len(categories)
             /\ SubSeq(categories', 1, Len(categories)) = categories
             /\ Len(vendors') >= Len(vendors)
             /\ SubSeq(vendors', 1, Len(vendors)) = vendors]_vars

\* a product of category Produce, then a second product of category Dairy:
\* Produce has id 1 and Dairy id 2
C19_Witness ==
    /\ pc = "parse"
    /\ rowIdx = 3
    /\ Len(categories) = 2
    /\ categories[1] = [key |-> Txt_Produce, value |-> 1]
    /\ categories[2] = [key |-> Txt_Dairy, value |-> 2]
    /\ Len(vendors) = 1

\* C20: a product record is fixed by its first row.  A row whose item number is
\* already in the product map leaves the product map and the category map as they
\* are, whatever its description, category, unit and location.
C20_ProductImmutable ==
    [][(/\ pc = "parse" /\ rowIdx <= Len(csv)
        /\ CanInt(csv[rowIdx]["Item num"])
        /\ HasKey(products, IntOf(csv[rowIdx]["Item num"]))) =>
          /\ products' = products
          /\ categories' = categories]_vars

\* item 1 of category Dairy, then a row for item 1 that says Produce: the product
\* is of category Dairy, the category map holds Dairy only, and the second row has
\* left its purchase and its sale
C20_Witness ==
    /\ pc = "parse"
    /\ rowIdx = 3
    /\ csv[1]["Item num"] = csv[2]["Item num"]
    /\ csv[1]["item type"] = Txt_Dairy
    /\ csv[2]["item type"] = Txt_Produce
    /\ Len(products) = 1
    /\ products[1].value.category = Txt_Dairy
    /\ categories = <<[key |-> Txt_Dairy, value |-> 1]>>
    /\ Len(purchases) = 2 /\ Len(sales) = 2

\* C21: the composite vendor string.  The vendor that the row with the string
\* "Bennet Farms, Rt. 17, Evansville, IL 55446" adds to the vendor map has the name
\* "Bennet Farms", the address "Rt. 17", the city "Evansville", the state "IL" and
\* the zip code "55446".
C21_BennetFarms ==
    [vendor_id |-> 1,
     vendor_name |-> <<"B", "e", "n", "n", "e", "t", " ", "F", "a", "r", "m", "s">>,
     address |-> <<"R", "t", ".", " ", "1", "7">>,
     city |-> <<"E", "v", "a", "n", "s", "v", "i", "l", "l", "e">>,
     state |-> <<"I", "L">>,
     zip_code |-> <<"5", "5", "4", "4", "6">>]

C21_CompositeVendorParsed ==
    (/\ pc = "parse" /\ rowIdx = 2
     /\ csv[1]["vendor"] = Txt_Bennet
     /\ Len(vendors) = 1) =>
        vendors[1].value = C21_BennetFarms

\* C22: short and unmatched vendor strings.  The vendor a row adds to the vendor
\* map has the stripped first ", "-separated segment of the row's vendor string as
\* name, the stripped second segment, or the empty string if there is none, as
\* address, and city, state and zip code that are empty all three or filled all
\* three; they are empty when the string has fewer than three segments or when
\* its third segment does not match the pattern.  "Acme" gives the name "Acme"
\* and four empty fields.
C22_NewVendor(row) ==
    /\ CanInt(row["Item num"])
    /\ notna(row["cost"])
    /\ clean_vendor_data(row["vendor"]) # None
    /\ ~HasKey(vendors, clean_vendor_data(row["vendor"])[1].vendor_name)

C22_Fields(v, parts) ==
    /\ v.vendor_name = Strip(parts[1])
    /\ v.address = IF Len(parts) >= 2 THEN Strip(parts[2]) ELSE << >>
    /\ (v.city = << >>) = (v.state = << >>)
    /\ (v.city = << >>) = (v.zip_code = << >>)
    /\ (Len(parts) < 3 \/ ReMatch(Strip(parts[3])) = << >>) => v.city = << >>

C22_Acme(v, vendor_string) ==
    vendor_string = Txt_Acme =>
        /\ v.vendor_name = Txt_Acme
        /\ v.address = << >> /\ v.city = << >> /\ v.state = << >> /\ v.zip_code = << >>

C22_ShortVendorString ==
    [][(pc = "parse" /\ rowIdx <= Len(csv) /\ C22_NewVendor(csv[rowIdx])) =>
          /\ Len(vendors') = Len(vendors) + 1
          /\ C22_Fields(vendors'[Len(vendors')].value,
                        Split(csv[rowIdx]["vendor"], CommaSpace))
          /\ C22_Acme(vendors'[Len(vendors')].value, csv[rowIdx]["vendor"])]_vars

\* "Acme", then "Bennet Farms, Rt. 17, Evansville, IL 55446", whose third segment
\* "Evansville" does not match: two vendors, neither with a city, a state or a zip
C22_Witness ==
    /\ pc = "parse"
    /\ rowIdx = 3
    /\ csv[1]["vendor"] = Txt_Acme
    /\ csv[2]["vendor"] = Txt_Bennet
    /\ Len(vendors) = 2
    /\ vendors[1].value.vendor_name = Txt_Acme
    /\ vendors[1].value.address = << >>
    /\ vendors[2].value.address = <<"R", "t", ".", " ", "1", "7">>
    /\ \A i \in 1..2 :
          /\ vendors[i].value.city = << >>
          /\ vendors[i].value.state = << >>
          /\ vendors[i].value.zip_code = << >>

\* C23: purchase gating.  A row adds a purchase fact only if it has a parseable
\* item number, a vendor string that is not blank and a cost, and a row that has
\* the three and is processed to its end adds exactly one, for its item; a row
\* with an item number and a cost whose vendor string is missing or only
\* whitespace leaves the vendor map, the purchases and the inventory as they are,
\* while its product is defined and, if it has a price and a sale date and is
\* processed to its end, its sale is recorded.
C23_Gate(row) ==
    /\ CanInt(row["Item num"])
    /\ notna(row["vendor"]) /\ Strip(row["vendor"]) # << >>
    /\ notna(row["cost"])

C23_NoVendor(row) ==
    /\ CanInt(row["Item num"])
    /\ isna(row["vendor"]) \/ Strip(row["vendor"]) = << >>
    /\ notna(row["cost"])

C24_Gate(row) ==
    /\ CanInt(row["Item num"])
    /\ notna(row["price"])
    /\ notna(row["date sold"])

C25_InventoryKeys == {inventory[i].key : i \in DOMAIN inventory}

C25_Purchased == {purchases[i].product_id : i \in DOMAIN purchases}

C25_InventoryOfPurchased ==
    (pc = "parse" \/ rowIdx > Len(csv)) =>
        /\ C25_InventoryKeys = C25_Purchased
        /\ \A i, j \in DOMAIN inventory : inventory[i].key = inventory[j].key => i = j

\* two rows have purchased product 1, the second with another on-hand quantity:
\* two purchase facts and the one inventory entry of the first row
C25_Witness ==
    /\ pc = "parse"
    /\ rowIdx = 3
    /\ csv[2]["quantity on-hand"] = <<"2", "5">>
    /\ Len(purchases) = 2
    /\ purchases[1].product_id = 1
    /\ purchases[2].product_id = 1
    /\ Len(inventory) = 1
    /\ inventory[1] = [key |-> 1, value |-> 40]

\* C26: normalize_unit is total: "each" for a missing, empty or whitespace-only
\* unit, "12 oz can" for "12 ounce can" and "12-oz can", and every other unit
\* trimmed and in lower case.  Stated of the unit the first row gives its product.
C26_Unit(unit) ==
    IF isna(unit) \/ Strip(unit) = << >> THEN Txt_each
    ELSE IF Strip(Lower(unit)) \in {Txt_12_ounce_can, Txt_12_dash_oz_can}
         THEN Txt_12_oz_can
         ELSE Strip(Lower(unit))

C26_NormalizeUnitTotal ==
    (pc = "parse" /\ rowIdx >= 2 /\ CanInt(csv[1]["Item num"])) =>
        /\ Len(products) >= 1
        /\ products[1].value.unit_of_measure = C26_Unit(csv[1]["Unit"])

\* ------------------------------------------------- runs on different files
\* The file at CSV_FILE_PATH is replaced between two runs of main(): the next run
\* reads another file, of up to MaxRowsOtherFile rows, into a fresh GreenspotETL
\* against the same sink.
MaxRowsOtherFile == 2

\* the files the next run may read: a row of the model after rows that are BaseRow
OtherInputs ==
    {file \in UNION {[1..n -> Rows] : n \in 1..MaxRowsOtherFile} :
        \A i \in 1..(Len(file) - 1) : file[i] = BaseRow}

NextRunOtherFile ==
    /\ pc = "done"
    /\ runs < MaxRuns
    /\ csv' \in OtherInputs \ {csv}
    /\ runs' = runs + 1
    /\ pc' = "connect"
    /\ rowIdx' = 1
    /\ SetContainers(EmptyContainers)
    /\ connection' = "none"
    /\ loadIdx' = 1
    /\ visited' = {}
    /\ oplog' = << >>
    /\ result' = "none"
    /\ summary' = None
    /\ UNCHANGED <<sink, work, finished, faults, peer>>

NextFiles == Next \/ NextRunOtherFile

SpecFiles == Init /\ [][NextFiles]_vars

\* C27: after any sequence of runs against the same sink, on the same file or on
\* different files, every product row a run has stored has the category_id of the
\* category row that carries the category name the file gave the product, and every
\* purchase order a run has stored has the vendor_id of the vendor row that carries
\* the vendor name parsed from the row of the purchase.
C27_StoredByRun(table) ==
    {sink[table][i] : i \in (Len(SinkAtStart[table]) + 1)..Len(sink[table])}

C27_IdsIdentifyNames ==
    pc = "done" =>
        /\ \A r \in C27_StoredByRun("products") :
              \E c \in RowsOf(sink, "product_categories") :
                  /\ c.category_id = r.category_id
                  /\ c.category_name = Get(products, r.product_id).category
        /\ \A r \in C27_StoredByRun("purchase_orders") :
              \E v \in RowsOf(sink, "vendors") :
                  /\ v.vendor_id = r.vendor_id
                  /\ \E i \in DOMAIN vendors :
                        /\ vendors[i].value.vendor_id = r.vendor_id
                        /\ vendors[i].key = v.vendor_name

\* C28: in-memory referential integrity.  After every processed row every purchase
\* fact has a product_id that is a key of the product map and a vendor_id that is
\* the id of an entry of the vendor map, every sale fact has a product_id that is a
\* key of the product map and a customer_id that is null or in the customer set,
\* and every product has a category that is a key of the category map.
C28_InMemoryIntegrity ==
    /\ \A i \in DOMAIN purchases :
          /\ HasKey(products, purchases[i].product_id)
          /\ \E j \in DOMAIN vendors : vendors[j].value.vendor_id = purchases[i].vendor_id
    /\ \A i \in DOMAIN sales :
          /\ HasKey(products, sales[i].product_id)
          /\ sales[i].customer_id = None \/ sales[i].customer_id[1] \in customers
    /\ \A i \in DOMAIN products : HasKey(categories, products[i].value.category)

\* two rows of one product have been processed, each with its purchase and its
\* sale, for two customers
C28_Witness ==
    /\ pc = "parse"
    /\ rowIdx = 3
    /\ Len(products) = 1
    /\ Len(categories) = 1
    /\ Len(purchases) = 2
    /\ Len(sales) = 2
    /\ sales[1].customer_id = Some(8)
    /\ sales[2].customer_id = Some(7)
    /\ customers = {7, 8}

\* C29: a parse failure runs no load phase.  Once process_row has raised at a row,
\* the run issues no insert and no commit, the sink stays what it was before the
\* run, and the run reports failure, whatever the rows before the failing one have
\* put in memory.
C29_ParseRaised == rowIdx <= Len(csv) /\ pc \notin {"connect", "parse"}

C29_ParseFailureLoadsNothing ==
    C29_ParseRaised =>
        /\ Inserts = {}
        /\ Commits = {}
        /\ sink = SinkAtStart
        /\ pc # "except" => result = "False"
        /\ summary = None

\* the second run, against the sink the first run has filled, has failed at the
\* second row of its file with the product, the purchase and the sale of the first
\* row in memory, and the sink is the one the first run left
C29_Witness ==
    /\ runs = 2
    /\ pc = "done"
    /\ result = "False"
    /\ rowIdx = 2
    /\ Len(csv) = 2
    /\ Len(products) = 1
    /\ Len(purchases) = 1
    /\ Len(sales) = 1
    /\ sink = finished[1].sink
    /\ Len(sink["products"]) = 1
    /\ Len(sink["sales_transactions"]) = 1

\* ------------------------------------------------------ two concurrent runs
\* A second process runs main() on the same file against the same sink while the
\* first one loads.  It parses the same rows with the same code, so its containers
\* are those of the first run: the model keeps one copy of them and gives the
\* second run (peer) its own place in run_etl, its own loop state and its own
\* transaction.  autocommit is off (config.py), so the inserts of a load function
\* are one transaction, which the commit of the function ends.
mainVars == <<csv, runs, pc, rowIdx, mem, connection, sink, work, loadIdx, visited,
              oplog, result, summary, finished, faults>>

LoadPhases == {Phases[i] : i \in DOMAIN Phases}

\* the rows of a followed by the rows of b, table by table
Merge(a, b) == [t \in DOMAIN a |-> a[t] \o b[t]]

\* the rows of the keyed tables the first run has inserted and not committed
MainPending ==
    [t \in DOMAIN work |-> SelectSeq(work[t], LAMBDA r : r \notin RowsOf(sink, t))]

\* the database as the connection of the second run sees it
PeerView == Merge(sink, peer.pending)

\* load_*: INSERT IGNORE for the five keyed tables, INSERT for the two fact tables
Statement(db, table, row) ==
    IF table \in {"purchase_orders", "sales_transactions"}
    THEN Insert(db, table, row)
    ELSE InsertIgnore(db, table, row)

\* a sink without row locks
LockWaitNone(mine, theirs, table, row) == FALSE

\* the row locks of the sink: an insert waits while the open transaction of the
\* other connection holds an uncommitted row with the same key, or the
\* uncommitted row the insert refers to
LockWait(mine, theirs, table, row) ==
    \/ DuplicateKey(theirs, table, row)
    \/ ~RefsPresent(mine, table, row) /\ RefsPresent(Merge(mine, theirs), table, row)

\* the first run is in a list loop whose next INSERT has to wait
MainWaits ==
    /\ pc \in LoadPhases \ {"load_customers"}
    /\ \E row \in NextRows(pc) : LockWait(work, peer.pending, PhaseTable(pc), row)

\* cursor.execute of the first run returns: the INSERT did not have to wait
MainInsert ==
    /\ ~MainWaits
    /\ \/ LoadCategoriesInsert
       \/ LoadVendorsInsert
       \/ LoadProductsInsert
       \/ LoadInventoryInsert
       \/ LoadPurchasesInsert
       \/ LoadSalesInsert

\* load_customers of the two runs: both processes have built the set of customers
\* by the same calls of add, so both iterate it in the same order, and the members
\* one loop has taken are among those the other has taken, or the reverse
SameOrder(taken, taken_by_other) ==
    taken \subseteq taken_by_other \/ taken_by_other \subseteq taken

MainCustomerInsert ==
    /\ LoadCustomersInsert
    /\ SameOrder(visited', peer.visited)
    /\ \A id \in visited' \ visited :
          ~LockWait(work, peer.pending, "customers", CustomerRow(id))

\* the second run has parsed the file and calls load_categories
PeerStart ==
    /\ peer.pc = "none"
    /\ pc = Phases[1]
    /\ loadIdx = 1
    /\ peer' = [peer EXCEPT !.pc = Phases[1]]
    /\ UNCHANGED mainVars

\* the second run after cursor.execute of row in load phase p
PeerAfter(row, stored) ==
    [pc |-> peer.pc,
     loadIdx |-> IF peer.pc = "load_customers" THEN peer.loadIdx ELSE peer.loadIdx + 1,
     visited |-> IF peer.pc = "load_customers"
                 THEN peer.visited \cup {row.customer_id} ELSE peer.visited,
     pending |-> stored]

\* cursor.execute of one INSERT [IGNORE] of the second run
PeerInsert ==
    /\ peer.pc \in LoadPhases
    /\ \E row \in LoopRows(peer.pc, peer.loadIdx, peer.visited) :
          /\ ~LockWait(PeerView, MainPending, PhaseTable(peer.pc), row)
          /\ SameOrder(PeerAfter(row, peer.pending).visited, visited)
          /\ peer' = PeerAfter(row,
                        IF Statement(PeerView, PhaseTable(peer.pc), row).outcome = "stored"
                        THEN Store(peer.pending, PhaseTable(peer.pc), row)
                        ELSE peer.pending)
    /\ UNCHANGED mainVars

\* connection.commit() of the second run at the end of a load function: its rows
\* are committed, and the connection of the first run sees them
PeerCommit ==
    /\ peer.pc \in LoadPhases
    /\ LoopRows(peer.pc, peer.loadIdx, peer.visited) = {}
    /\ sink' = Merge(sink, peer.pending)
    /\ work' = Merge(work, peer.pending)
    /\ peer' = [pc |-> PhaseAfter(peer.pc), loadIdx |-> 1, visited |-> {},
                pending |-> EmptySink]
    /\ UNCHANGED <<csv, runs, pc, rowIdx, mem, connection, loadIdx, visited, oplog,
                   result, summary, finished, faults>>

\* the second run prints its summary, returns True and disconnects
PeerFinish ==
    /\ peer.pc = "summary"
    /\ peer' = [peer EXCEPT !.pc = "done"]
    /\ UNCHANGED mainVars

NextConcurrent ==
    \/ Connect
    \/ SkipRow
    \/ ProcessRow
    \/ ProcessRowRaises
    \/ ParseDone
    \/ MainInsert
    \/ MainCustomerInsert
    \/ LoadCategoriesCommit
    \/ LoadVendorsCommit
    \/ LoadProductsCommit
    \/ LoadCustomersCommit
    \/ LoadInventoryCommit
    \/ LoadPurchasesCommit
    \/ LoadSalesCommit
    \/ PrintSummary
    \/ HandleException
    \/ Disconnect
    \/ PeerStart
    \/ PeerInsert
    \/ PeerCommit
    \/ PeerFinish

SpecConcurrent == Init /\ [][NextConcurrent]_vars

\* C30: two runs on the same file against the same sink, empty at first, with
\* their inserts and commits interleaved in any order, end with the Category,
\* Vendor, Product, Customer and Inventory rows of one run alone, with no category
\* name and no vendor name bound to two ids, and with twice the rows of one run in
\* each of the two fact tables.
RECURSIVE C30_Load(_, _, _)
C30_Load(db, table, rows) ==
    IF rows = << >> THEN db
    ELSE C30_Load(Statement(db, table, Head(rows)).db, table, Tail(rows))

RECURSIVE C30_InSomeOrder(_)
C30_InSomeOrder(set) ==
    IF set = {} THEN << >>
    ELSE <<CHOOSE x \in set : TRUE>>
         \o C30_InSomeOrder(set \ {CHOOSE x \in set : TRUE})

C30_Customers == C30_InSomeOrder({CustomerRow(id) : id \in customers})

\* the sink one run alone leaves, from the containers of the file
C30_OneRun ==
    C30_Load(C30_Load(C30_Load(C30_Load(C30_Load(C30_Load(C30_Load(EmptySink,
        "product_categories", [i \in DOMAIN categories |-> CategoryRow(categories[i])]),
        "vendors", [i \in DOMAIN vendors |-> VendorRow(vendors[i])]),
        "products",
        [i \in DOMAIN products |-> ProductRow(products[i], categories, purchases)]),
        "customers", C30_Customers),
        "inventory", [i \in DOMAIN inventory |-> InventoryRow(inventory[i])]),
        "purchase_orders", [i \in DOMAIN purchases |-> PurchaseRow(purchases[i])]),
        "sales_transactions", [i \in DOMAIN sales |-> SaleRow(sales[i])])

C30_Count(rows, r) == Cardinality({i \in DOMAIN rows : rows[i] = r})

C30_BothDone == pc = "done" /\ result = "True" /\ peer.pc = "done"

====
